---- MODULE Spec2Model ----
(***************************************************************************)
(* block-fees: sum of the transaction fees of a bitcoin block, fetched     *)
(* from the esplora API (src/src/main.rs).                                  *)
(*                                                                         *)
(* The model follows main(): argument check, prefix check, client          *)
(* construction, resolution of the block's transaction ids, one spawned    *)
(* tokio task per transaction id, the join-and-sum loop and the final      *)
(* println!.  The spawned tasks run on the runtime's worker threads and    *)
(* interleave freely with each other and with main.                        *)
(*                                                                         *)
(* Diagnostics: stderr records the calls of error! and the panic messages. *)
(* info! records are not modelled (env_logger prints only the error level  *)
(* unless RUST_LOG says otherwise).                                        *)
(***************************************************************************)
EXTENDS Integers, Sequences, FiniteSets, Bags, TLC

(***************************************************************************)
(* Bounds of the model.                                                    *)
(***************************************************************************)
\* largest number of transaction ids the remote service lists for a block
MaxTx == 3
\* largest mantissa of a Decimal: stands for 2^96 - 1 of rust_decimal
DecMaxMantissa == 99
\* largest scale of a Decimal: stands for 28 of rust_decimal
DecMaxScale == 2

(***************************************************************************)
(* Program constants.                                                      *)
(***************************************************************************)
MAGIC_NUMBER == "00000000"

\* exit statuses: process::exit(1), a panic of the main thread, return of main
EXIT_FAILURE == 1
EXIT_PANIC == 101
EXIT_SUCCESS == 0
\* the process has not terminated yet
Running == -1

(***************************************************************************)
(* Strings.                                                                *)
(***************************************************************************)
\* str::starts_with
StartsWith(s, p) == Len(s) >= Len(p) /\ SubSeq(s, 1, Len(p)) = p

(***************************************************************************)
(* rust_decimal::Decimal: mantissa m and scale s, the value m / 10^s.      *)
(* Fees are non-negative in the model.                                     *)
(***************************************************************************)
RECURSIVE Pow10(_)
Pow10(k) == IF k = 0 THEN 1 ELSE 10 * Pow10(k - 1)

Max(a, b) == IF a >= b THEN a ELSE b

\* a zero that carries the largest scale, as dec!(0.00) would
DecZeroScaled == [m |-> 0, s |-> DecMaxScale]

\* dec!(0)
DecZero == [m |-> 0, s |-> 0]

\* the result of an addition that does not fit
DecNone == [m |-> -1, s |-> 0]

\* the mantissa M of scale k+j brought to scale j, rounded half to even
RoundHalfEven(M, k) ==
    LET p == Pow10(k)
        q == M \div p
        r == M % p
    IN  IF 2 * r > p \/ (2 * r = p /\ q % 2 = 1) THEN q + 1 ELSE q

\* Decimal::checked_add: the exact sum at the larger scale; when its mantissa
\* does not fit, the scale is lowered and the mantissa rounded until it does;
\* None when it does not fit at scale 0.
checked_add(a, b) ==
    LET s  == Max(a.s, b.s)
        M  == a.m * Pow10(s - a.s) + b.m * Pow10(s - b.s)
        ks == {k \in 0..s : RoundHalfEven(M, k) <= DecMaxMantissa}
    IN  IF ks = {} THEN DecNone
        ELSE LET k == CHOOSE x \in ks : \A y \in ks : x <= y
             IN  [m |-> RoundHalfEven(M, k), s |-> s - k]

\* the digits of n, padded with zeros on the left to width w
RECURSIVE PadZeros(_, _)
PadZeros(str, w) == IF Len(str) >= w THEN str ELSE PadZeros("0" \o str, w)

\* impl Display for Decimal: the integer part, and the fraction with exactly
\* s digits when the scale is not 0
Display(d) ==
    IF d.s = 0 THEN ToString(d.m)
    ELSE ToString(d.m \div Pow10(d.s)) \o "." \o PadZeros(ToString(d.m % Pow10(d.s)), d.s)

(***************************************************************************)
(* URLs.  Url::join resolves a relative reference against the base; for a  *)
(* base that ends in "/" and a relative path it appends the path, and it   *)
(* fails with a ParseError for a reference whose authority does not parse. *)
(***************************************************************************)
ESPLORA_API == "https://blockstream.info/api/"

\* the Err(url::ParseError) of Url::join
UrlParseError == "ParseError"

\* a transaction id for which Url::join fails (an opening bracket in the host)
BadTxId == "//["

url_join(base, ref) ==
    IF StartsWith(ref, "//[") THEN UrlParseError ELSE base \o ref

(***************************************************************************)
(* Inputs: the command line and the dataset of the remote service.         *)
(***************************************************************************)
\* a block hash of mainnet (the example of the crate documentation)
GoodHash == "000000000000000001a4f543e574f6e9d6e6e7c4ea2b84a5c1d5193a0a295995"

\* argv: the program name, then the arguments
ArgLists ==
    { <<"block-fees">>,
      <<"block-fees", GoodHash>>,
      <<"block-fees", "00000000zz">>,
      <<"block-fees", "0000000">>,
      <<"block-fees", "">>,
      <<"block-fees", "1a4f543e574f6e9d6e6e7c4ea2b84a5c1d5193a0a2959950000000000000000">> }

\* the fees the service may report
Fees ==
    { [m |-> DecMaxMantissa - 1, s |-> 0],
      [m |-> 5, s |-> 1],
      [m |-> 1, s |-> DecMaxScale] }

TxName(i) == "t" \o ToString(i)

\* the transactions of the block, in the order of the txids response: the
\* ids t1..tn with their fees, the last id possibly one that is no URL path
Remotes ==
    UNION { { [i \in 1..n |-> [txid |-> TxName(i), fee |-> f[i]]] : f \in [1..n -> Fees] }
            \cup
            { [i \in 1..n |-> IF i = n THEN [txid |-> BadTxId, fee |-> DecZero]
                                       ELSE [txid |-> TxName(i), fee |-> f[i]]] :
                  f \in [1..(n - 1) -> Fees] }
            : n \in 1..MaxTx }
    \cup { << >> }

(***************************************************************************)
(* State.                                                                  *)
(***************************************************************************)
VARIABLES
    args,                   \* std::env::args()
    remote,                 \* the transactions of the block at the service
    pc,                     \* the position of main
    block_hash,             \* the argument with "/" appended
    block_transaction_ids,  \* the decoded txids response
    handles,                \* the JoinHandles, as task numbers, in spawn order
    task,                   \* the position of every spawned task
    result,                 \* the fee a finished task returns
    joined,                 \* how many handles main has awaited
    sum,                    \* the running total
    requests,               \* the bag of the URLs of the GET requests sent so far
    stdout,                 \* the lines printed to standard output
    stderr,                 \* the diagnostics written to the error stream
    exitCode,               \* the exit status, Running while the process lives
    exitedBy,               \* who terminated the process: "main" or "task"
    reordered,              \* a fetch completed before one spawned earlier
    run,                    \* the number of the invocation
    prev                    \* stdout and exit status of the invocation before

vars == << args, remote, pc, block_hash, block_transaction_ids, handles, task,
           result, joined, sum, requests, stdout, stderr, exitCode, exitedBy,
           reordered, run, prev >>

\* the variables of one invocation that main and the tasks write
input == << args, remote >>
history == << run, prev >>

Tasks == 1..MaxTx

NoPrev == [stdout |-> << >>, exitCode |-> Running]

\* the state of a process that has just started
Fresh ==
    /\ pc = "args"
    /\ block_hash = ""
    /\ block_transaction_ids = << >>
    /\ handles = << >>
    /\ task = [i \in Tasks |-> "none"]
    /\ result = [i \in Tasks |-> DecNone]
    /\ joined = 0
    /\ sum = DecZero
    /\ requests = EmptyBag
    /\ stdout = << >>
    /\ stderr = << >>
    /\ exitCode = Running
    /\ exitedBy = "none"
    /\ reordered = FALSE

Init ==
    /\ args \in ArgLists
    /\ remote \in Remotes
    /\ run = 1
    /\ prev = NoPrev
    /\ Fresh

(***************************************************************************)
(* Termination of the process.                                             *)
(***************************************************************************)
\* error!(..) followed by std::process::exit(1), called by main
ErrorExit(msg) ==
    /\ stderr' = Append(stderr, msg)
    /\ exitCode' = EXIT_FAILURE
    /\ exitedBy' = "main"

\* a panic of the main thread: the message, then exit status 101
PanicExit(msg) ==
    /\ stderr' = Append(stderr, msg)
    /\ exitCode' = EXIT_PANIC
    /\ exitedBy' = "main"

(***************************************************************************)
(* main                                                                    *)
(***************************************************************************)
\* std::env::args().nth(1) is None
ArgMissing ==
    /\ exitCode = Running /\ pc = "args"
    /\ Len(args) < 2
    /\ ErrorExit("Please provide a Bitcoin mainnet block hash.")
    /\ UNCHANGED << input, history, pc, block_hash, block_transaction_ids, handles,
                    task, result, joined, sum, requests, stdout, reordered >>

\* std::env::args().nth(1) is Some(s): block_hash = s + "/"
ArgPresent ==
    /\ exitCode = Running /\ pc = "args"
    /\ Len(args) >= 2
    /\ block_hash' = args[2] \o "/"
    /\ pc' = "prefix"
    /\ UNCHANGED << input, history, block_transaction_ids, handles, task, result,
                    joined, sum, requests, stdout, stderr, exitCode, exitedBy,
                    reordered >>

\* PrefixInvalid with the check placed after the txids request has been sent
PrefixInvalidAfterRequest ==
    /\ exitCode = Running /\ pc = "prefix"
    /\ ~StartsWith(block_hash, MAGIC_NUMBER)
    /\ requests' = requests (+) SetToBag({ESPLORA_API \o "block/" \o block_hash \o "txids"})
    /\ ErrorExit("Invalid hash. Please provide a Bitcoin mainnet block hash.")
    /\ UNCHANGED << input, history, pc, block_hash, block_transaction_ids, handles,
                    task, result, joined, sum, stdout, reordered >>

\* !block_hash.starts_with(MAGIC_NUMBER)
PrefixInvalid ==
    /\ exitCode = Running /\ pc = "prefix"
    /\ ~StartsWith(block_hash, MAGIC_NUMBER)
    /\ ErrorExit("Invalid hash. Please provide a Bitcoin mainnet block hash.")
    /\ UNCHANGED << input, history, pc, block_hash, block_transaction_ids, handles,
                    task, result, joined, sum, requests, stdout, reordered >>

PrefixValid ==
    /\ exitCode = Running /\ pc = "prefix"
    /\ StartsWith(block_hash, MAGIC_NUMBER)
    /\ pc' = "client"
    /\ UNCHANGED << input, history, block_hash, block_transaction_ids, handles, task,
                    result, joined, sum, requests, stdout, stderr, exitCode,
                    exitedBy, reordered >>

\* Client::new() and Url::parse(ESPLORA_API) succeed
ClientNew ==
    /\ exitCode = Running /\ pc = "client"
    /\ pc' = "resolve"
    /\ UNCHANGED << input, history, block_hash, block_transaction_ids, handles, task,
                    result, joined, sum, requests, stdout, stderr, exitCode,
                    exitedBy, reordered >>

\* Client::new() panics (the FIXME of main)
ClientPanic ==
    /\ exitCode = Running /\ pc = "client"
    /\ PanicExit("panicked: Client::new()")
    /\ UNCHANGED << input, history, pc, block_hash, block_transaction_ids, handles,
                    task, result, joined, sum, requests, stdout, reordered >>

\* the URL of get_block_transaction_ids
TxidsUrl(hash) ==
    LET u1 == url_join(ESPLORA_API, "block/")
        u2 == IF u1 = UrlParseError THEN u1 ELSE url_join(u1, hash)
    IN  IF u2 = UrlParseError THEN u2 ELSE url_join(u2, "txids")

\* get_block_transaction_ids up to send(): the URL is built, the GET is sent
ResolveSend ==
    /\ exitCode = Running /\ pc = "resolve"
    /\ TxidsUrl(block_hash) # UrlParseError
    /\ requests' = requests (+) SetToBag({TxidsUrl(block_hash)})
    /\ pc' = "resolving"
    /\ UNCHANGED << input, history, block_hash, block_transaction_ids, handles, task,
                    result, joined, sum, stdout, stderr, exitCode, exitedBy,
                    reordered >>

\* the response arrives and decodes as a list of strings
ResolveOk ==
    /\ exitCode = Running /\ pc = "resolving"
    /\ block_transaction_ids' = [i \in 1..Len(remote) |-> remote[i].txid]
    /\ pc' = "spawn"
    /\ UNCHANGED << input, history, block_hash, handles, task, result, joined, sum,
                    requests, stdout, stderr, exitCode, exitedBy, reordered >>

\* ResolveErr with std::process::exit(0) in place of exit(1)
ResolveErrExitOk ==
    /\ exitCode = Running /\ pc = "resolving"
    /\ stderr' = Append(stderr, "Error fetching transactions from block ID: ReqwestError")
    /\ exitCode' = EXIT_SUCCESS
    /\ exitedBy' = "main"
    /\ UNCHANGED << input, history, pc, block_hash, block_transaction_ids, handles,
                    task, result, joined, sum, requests, stdout, reordered >>

\* ResolveErr that starts main over instead of exiting (a retry loop)
ResolveErrRestart ==
    /\ exitCode = Running /\ pc = "resolving"
    /\ stderr' = Append(stderr, "Error fetching transactions from block ID: ReqwestError")
    /\ pc' = "args"
    /\ UNCHANGED << input, history, block_hash, block_transaction_ids, handles, task,
                    result, joined, sum, requests, stdout, exitCode, exitedBy,
                    reordered >>

\* send() or json() fails: unwrap_or_else logs the error and exits
ResolveErr ==
    /\ exitCode = Running /\ pc = "resolving"
    /\ ErrorExit("Error fetching transactions from block ID: ReqwestError")
    /\ UNCHANGED << input, history, pc, block_hash, block_transaction_ids, handles,
                    task, result, joined, sum, requests, stdout, reordered >>

\* Spawn with the handle awaited inside the loop: the next task is spawned
\* only when the tasks before it have returned
SpawnSequential ==
    /\ exitCode = Running /\ pc = "spawn"
    /\ Len(handles) < Len(block_transaction_ids)
    /\ \A j \in 1..Len(handles) : task[j] = "finished"
    /\ LET i == Len(handles) + 1
       IN  /\ task' = [task EXCEPT ![i] = "spawned"]
           /\ handles' = Append(handles, i)
    /\ UNCHANGED << input, history, pc, block_hash, block_transaction_ids, result,
                    joined, sum, requests, stdout, stderr, exitCode, exitedBy,
                    reordered >>

\* one turn of the spawn loop: tokio::spawn for the next txid, handles.push
Spawn ==
    /\ exitCode = Running /\ pc = "spawn"
    /\ Len(handles) < Len(block_transaction_ids)
    /\ LET i == Len(handles) + 1
       IN  /\ task' = [task EXCEPT ![i] = "spawned"]
           /\ handles' = Append(handles, i)
    /\ UNCHANGED << input, history, pc, block_hash, block_transaction_ids, result,
                    joined, sum, requests, stdout, stderr, exitCode, exitedBy,
                    reordered >>

\* the spawn loop is over: let mut sum = dec!(0)
SpawnDone ==
    /\ exitCode = Running /\ pc = "spawn"
    /\ Len(handles) = Len(block_transaction_ids)
    /\ sum' = DecZero
    /\ pc' = "join"
    /\ UNCHANGED << input, history, block_hash, block_transaction_ids, handles, task,
                    result, joined, requests, stdout, stderr, exitCode, exitedBy,
                    reordered >>

\* the handle main awaits next
NextHandle == handles[joined + 1]

\* JoinAdd with a task that hands its error back and a join loop that skips
\* it (unwrap_or_default in place of the exit)
JoinAddLenient ==
    /\ exitCode = Running /\ pc = "join"
    /\ joined < Len(handles)
    /\ task[NextHandle] \in {"finished", "failed", "logged"}
    /\ LET fee == IF task[NextHandle] = "finished" THEN result[NextHandle] ELSE DecZero
       IN  /\ checked_add(sum, fee) # DecNone
           /\ sum' = checked_add(sum, fee)
    /\ joined' = joined + 1
    /\ UNCHANGED << input, history, pc, block_hash, block_transaction_ids, handles,
                    task, result, requests, stdout, stderr, exitCode, exitedBy,
                    reordered >>

\* JoinAdd with the handles awaited in the order of completion (as a
\* FuturesUnordered would yield them) instead of the order of the vector
JoinAddAnyOrder ==
    /\ exitCode = Running /\ pc = "join"
    /\ \E k \in (joined + 1)..Len(handles) :
          /\ task[handles[k]] = "finished"
          /\ checked_add(sum, result[handles[k]]) # DecNone
          /\ sum' = checked_add(sum, result[handles[k]])
          /\ handles' = [handles EXCEPT ![joined + 1] = handles[k],
                                        ![k] = handles[joined + 1]]
    /\ joined' = joined + 1
    /\ UNCHANGED << input, history, pc, block_hash, block_transaction_ids, task,
                    result, requests, stdout, stderr, exitCode, exitedBy,
                    reordered >>

\* one turn of the join loop: handle.await returns the fee, sum += fee
JoinAdd ==
    /\ exitCode = Running /\ pc = "join"
    /\ joined < Len(handles)
    /\ task[NextHandle] = "finished"
    /\ checked_add(sum, result[NextHandle]) # DecNone
    /\ sum' = checked_add(sum, result[NextHandle])
    /\ joined' = joined + 1
    /\ UNCHANGED << input, history, pc, block_hash, block_transaction_ids, handles,
                    task, result, requests, stdout, stderr, exitCode, exitedBy,
                    reordered >>

\* sum += fee overflows: Decimal's AddAssign panics, the message is printed
JoinOverflow ==
    /\ exitCode = Running /\ pc = "join"
    /\ joined < Len(handles)
    /\ task[NextHandle] = "finished"
    /\ checked_add(sum, result[NextHandle]) = DecNone
    /\ stderr' = Append(stderr, "panicked: Addition overflowed")
    /\ pc' = "panicked"
    /\ UNCHANGED << input, history, block_hash, block_transaction_ids, handles, task,
                    result, joined, sum, requests, stdout, exitCode, exitedBy,
                    reordered >>

\* the panic has unwound main: the process ends with status 101
PanicUnwind ==
    /\ exitCode = Running /\ pc = "panicked"
    /\ exitCode' = EXIT_PANIC
    /\ exitedBy' = "main"
    /\ UNCHANGED << input, history, pc, block_hash, block_transaction_ids, handles,
                    task, result, joined, sum, requests, stdout, stderr, reordered >>

\* PrintTotal without the end of the join loop: the total is printed while
\* handles are still to be awaited
PrintTotalEarly ==
    /\ exitCode = Running /\ pc = "join"
    /\ stdout' = Append(stdout, Display(sum))
    /\ pc' = "returned"
    /\ exitCode' = EXIT_SUCCESS
    /\ exitedBy' = "main"
    /\ UNCHANGED << input, history, block_hash, block_transaction_ids, handles, task,
                    result, joined, sum, requests, stderr, reordered >>

\* println!("{sum}") and the return of main
PrintTotal ==
    /\ exitCode = Running /\ pc = "join"
    /\ joined = Len(handles)
    /\ stdout' = Append(stdout, Display(sum))
    /\ pc' = "returned"
    /\ exitCode' = EXIT_SUCCESS
    /\ exitedBy' = "main"
    /\ UNCHANGED << input, history, block_hash, block_transaction_ids, handles, task,
                    result, joined, sum, requests, stderr, reordered >>

(***************************************************************************)
(* The spawned task of transaction i (the async move block of main).       *)
(***************************************************************************)
\* the URL of get_fee_from_txid
TxUrl(txid) ==
    LET u1 == url_join(ESPLORA_API, "tx/")
    IN  IF u1 = UrlParseError THEN u1 ELSE url_join(u1, txid)

\* get_fee_from_txid up to send(): the URL is built, the GET is sent
TaskSend(i) ==
    /\ exitCode = Running
    /\ task[i] = "spawned"
    /\ TxUrl(block_transaction_ids[i]) # UrlParseError
    /\ requests' = requests (+) SetToBag({TxUrl(block_transaction_ids[i])})
    /\ task' = [task EXCEPT ![i] = "inflight"]
    /\ UNCHANGED << input, history, pc, block_hash, block_transaction_ids, handles,
                    result, joined, sum, stdout, stderr, exitCode, exitedBy,
                    reordered >>

\* Url::join fails: get_fee_from_txid returns Err(UrlParseError), nothing is sent
TaskUrlErr(i) ==
    /\ exitCode = Running
    /\ task[i] = "spawned"
    /\ TxUrl(block_transaction_ids[i]) = UrlParseError
    /\ task' = [task EXCEPT ![i] = "failed"]
    /\ UNCHANGED << input, history, pc, block_hash, block_transaction_ids, handles,
                    result, joined, sum, requests, stdout, stderr, exitCode,
                    exitedBy, reordered >>

\* the response arrives and decodes: the task returns response.fee
FetchOk(i) ==
    /\ exitCode = Running
    /\ task[i] = "inflight"
    /\ task' = [task EXCEPT ![i] = "finished"]
    /\ result' = [result EXCEPT ![i] = remote[i].fee]
    /\ reordered' = (reordered \/ \E j \in 1..(i - 1) : task[j] # "finished")
    /\ UNCHANGED << input, history, pc, block_hash, block_transaction_ids, handles,
                    joined, sum, requests, stdout, stderr, exitCode, exitedBy >>

\* FetchErr with a retry: the task starts its request over
FetchErrRetry(i) ==
    /\ exitCode = Running
    /\ task[i] = "inflight"
    /\ task' = [task EXCEPT ![i] = "spawned"]
    /\ UNCHANGED << input, history, pc, block_hash, block_transaction_ids, handles,
                    result, joined, sum, requests, stdout, stderr, exitCode,
                    exitedBy, reordered >>

\* send() or json() fails: get_fee_from_txid returns Err(ReqwestError)
FetchErr(i) ==
    /\ exitCode = Running
    /\ task[i] = "inflight"
    /\ task' = [task EXCEPT ![i] = "failed"]
    /\ UNCHANGED << input, history, pc, block_hash, block_transaction_ids, handles,
                    result, joined, sum, requests, stdout, stderr, exitCode,
                    exitedBy, reordered >>

\* the {:?} of the error of task i: a reqwest::Error shows the URL of its
\* request, a url::ParseError shows its kind only
ErrorDebug(i) ==
    IF TxUrl(block_transaction_ids[i]) = UrlParseError
    THEN "UrlParseError(InvalidIpv6Address)"
    ELSE "ReqwestError(" \o TxUrl(block_transaction_ids[i]) \o ")"

\* the diagnostic of the failed fetch of task i
TaskDiag(i) ==
    "Error fetching fee from one or more transactions: " \o ErrorDebug(i)

\* TaskLogError that reports the failed fetch of the lowest index, not its own
TaskLogErrorLowest(i) ==
    /\ exitCode = Running
    /\ task[i] = "failed"
    /\ LET low == CHOOSE j \in Tasks :
                     /\ task[j] \in {"failed", "logged"}
                     /\ \A k \in Tasks : task[k] \in {"failed", "logged"} => j <= k
       IN  stderr' = Append(stderr, TaskDiag(low))
    /\ task' = [task EXCEPT ![i] = "logged"]
    /\ UNCHANGED << input, history, pc, block_hash, block_transaction_ids, handles,
                    result, joined, sum, requests, stdout, exitCode, exitedBy,
                    reordered >>

\* unwrap_or_else, first statement: error!(..)
TaskLogError(i) ==
    /\ exitCode = Running
    /\ task[i] = "failed"
    /\ stderr' = Append(stderr, TaskDiag(i))
    /\ task' = [task EXCEPT ![i] = "logged"]
    /\ UNCHANGED << input, history, pc, block_hash, block_transaction_ids, handles,
                    result, joined, sum, requests, stdout, exitCode, exitedBy,
                    reordered >>

\* TaskExit that never exits: the task leaves its error path without a
\* result and without ending the process, so its handle never completes
TaskExitHang(i) ==
    /\ exitCode = Running
    /\ task[i] = "logged"
    /\ task' = [task EXCEPT ![i] = "exited"]
    /\ UNCHANGED << input, history, pc, block_hash, block_transaction_ids, handles,
                    result, joined, sum, requests, stdout, stderr, exitCode,
                    exitedBy, reordered >>

\* unwrap_or_else, second statement: std::process::exit(1)
TaskExit(i) ==
    /\ exitCode = Running
    /\ task[i] = "logged"
    /\ task' = [task EXCEPT ![i] = "exited"]
    /\ exitCode' = EXIT_FAILURE
    /\ exitedBy' = "task"
    /\ UNCHANGED << input, history, pc, block_hash, block_transaction_ids, handles,
                    result, joined, sum, requests, stdout, stderr, reordered >>

(***************************************************************************)
(* One invocation of the program.                                          *)
(***************************************************************************)
Main ==
    \/ ArgMissing \/ ArgPresent
    \/ PrefixInvalid \/ PrefixValid
    \/ ClientNew \/ ClientPanic
    \/ ResolveSend \/ ResolveOk \/ ResolveErr
    \/ Spawn \/ SpawnDone
    \/ JoinAdd \/ JoinOverflow \/ PanicUnwind
    \/ PrintTotal

Task(i) ==
    \/ TaskSend(i) \/ TaskUrlErr(i)
    \/ FetchOk(i) \/ FetchErr(i)
    \/ TaskLogError(i) \/ TaskExit(i)

Next == Main \/ \E i \in Tasks : Task(i)

Spec == Init /\ [][Next]_vars

(***************************************************************************)
(* Fair scheduling: main is run whenever it can take a step, and so is     *)
(* every spawned task; in particular every request that was sent is        *)
(* answered, with a response or with an error.                             *)
(***************************************************************************)
Fairness == WF_vars(Main) /\ \A i \in Tasks : WF_vars(Task(i))

SpecFair == Init /\ [][Next]_vars /\ Fairness

(***************************************************************************)
(* Two invocations for the same arguments against the same dataset: when   *)
(* the first has ended with every request answered, the program is started *)
(* again.                                                                  *)
(***************************************************************************)
\* the txids request and every fee request of this invocation succeeded
AllFetched ==
    /\ pc \in {"spawn", "join", "panicked", "returned"}
    /\ \A i \in 1..Len(remote) : task[i] = "finished"

Rerun ==
    /\ run = 1
    /\ exitCode # Running
    /\ AllFetched
    /\ run' = 2
    /\ prev' = [stdout |-> stdout, exitCode |-> exitCode]
    /\ pc' = "args"
    /\ block_hash' = ""
    /\ block_transaction_ids' = << >>
    /\ handles' = << >>
    /\ task' = [i \in Tasks |-> "none"]
    /\ result' = [i \in Tasks |-> DecNone]
    /\ joined' = 0
    /\ sum' = DecZero
    /\ requests' = EmptyBag
    /\ stdout' = << >>
    /\ stderr' = << >>
    /\ exitCode' = Running
    /\ exitedBy' = "none"
    /\ reordered' = FALSE
    /\ UNCHANGED input

NextTwice == Next \/ Rerun

SpecTwice == Init /\ [][NextTwice]_vars

(***************************************************************************)
(* Properties.                                                             *)
(***************************************************************************)
Terminated == exitCode # Running

\* the fetch of task i has failed (URL, transport or decoding)
FetchFailed(i) == task[i] \in {"failed", "logged", "exited"}

\* C1: once at least one dispatched fee fetch has failed, nothing is ever on
\* standard output and the process cannot end with status 0: when it has
\* ended, the status is not zero.
C1_FailedFetchNoTotal ==
    (\E i \in Tasks : FetchFailed(i)) =>
        /\ stdout = << >>
        /\ exitCode \in {Running, EXIT_FAILURE, EXIT_PANIC}

\* one of at least two fetches failed and ended the run, all the others succeeded
C1_Witness ==
    /\ exitCode = EXIT_FAILURE
    /\ Len(block_transaction_ids) >= 2
    /\ \E i \in 1..Len(block_transaction_ids) :
          /\ task[i] = "exited"
          /\ \A j \in 1..Len(block_transaction_ids) : j # i => task[j] = "finished"
    /\ stdout = << >>

\* the exact sum of two decimals: the mantissa is not bounded
ExactAdd(a, b) ==
    LET s == Max(a.s, b.s)
    IN  [m |-> a.m * Pow10(s - a.s) + b.m * Pow10(s - b.s), s |-> s]

\* the exact sum of the fees of the first n transactions of the dataset
RECURSIVE ExactTotal(_, _)
ExactTotal(r, n) ==
    IF n = 0 THEN [m |-> 0, s |-> 0] ELSE ExactAdd(ExactTotal(r, n - 1), r[n].fee)

\* C2: when validation, resolution and every fee fetch have succeeded, the
\* process ends with status 0 and standard output is the one line that shows
\* the exact decimal sum of the fetched fees.
C2_PrintsExactSum ==
    (Terminated /\ AllFetched) =>
        /\ exitCode = EXIT_SUCCESS
        /\ stdout = << Display(ExactTotal(remote, Len(remote))) >>

\* the total main computes when it adds the fees of the first n transactions
\* in the order of the txids response
RECURSIVE InOrderTotal(_, _)
InOrderTotal(r, n) ==
    IF n = 0 THEN DecZero
    ELSE LET t == InOrderTotal(r, n - 1)
         IN  IF t = DecNone THEN DecNone ELSE checked_add(t, r[n].fee)

\* C3: the printed total is determined by the block's transactions and their
\* fees alone: whatever the order in which the fetches completed, it is the
\* total of the fees taken in the order of the txids response.
C3_TotalIndependentOfCompletionOrder ==
    stdout # << >> => stdout = << Display(InOrderTotal(remote, Len(remote))) >>

\* a total is printed for three transactions whose fetches did not complete
\* in the order they were spawned
C3_Witness ==
    /\ stdout # << >>
    /\ Len(remote) >= 3
    /\ reordered

\* C4: when the txids response is the empty list, no task is spawned, no fee
\* request is sent, the run cannot fail, and what it prints is exactly "0".
C4_EmptyBlockTotalZero ==
    (pc \in {"spawn", "join", "panicked", "returned"} /\ block_transaction_ids = << >>) =>
        /\ handles = << >>
        /\ \A i \in Tasks : task[i] = "none"
        /\ requests = SetToBag({TxidsUrl(block_hash)})
        /\ stderr = << >>
        /\ exitCode \in {Running, EXIT_SUCCESS}
        /\ (Terminated => stdout = << "0" >>)

\* the run for a block without transactions has ended and printed 0
C4_Witness ==
    /\ pc = "returned"
    /\ block_transaction_ids = << >>
    /\ exitCode = EXIT_SUCCESS
    /\ stdout = << "0" >>

HexDigits == {"0", "1", "2", "3", "4", "5", "6", "7", "8", "9",
              "a", "b", "c", "d", "e", "f"}

\* the block identifier format of the specification: 64 lowercase
\* hexadecimal characters that begin with the prefix
IsBlockIdentifier(s) ==
    /\ Len(s) = 64
    /\ \A i \in 1..Len(s) : SubSeq(s, i, i) \in HexDigits
    /\ StartsWith(s, MAGIC_NUMBER)

\* C5: for an argument that is not a block identifier of the required format,
\* main never gets past the validation and no request is ever sent.
C5_InvalidInputNoRequest ==
    (Len(args) >= 2 /\ ~IsBlockIdentifier(args[2])) =>
        /\ pc \in {"args", "prefix"}
        /\ requests = EmptyBag

\* C6: when the txids request has failed, the process has ended with status 1
\* and one diagnostic, no task was spawned and the txids request is the only
\* request that was sent.
C6_ResolveFailureNoDispatch ==
    (pc = "resolving" /\ Terminated) =>
        /\ exitCode = EXIT_FAILURE
        /\ Len(stderr) = 1
        /\ stdout = << >>
        /\ handles = << >>
        /\ \A i \in Tasks : task[i] = "none"
        /\ requests = SetToBag({TxidsUrl(block_hash)})

\* the txids request of a block that has transactions failed and ended the run
C6_Witness ==
    /\ pc = "resolving"
    /\ exitCode = EXIT_FAILURE
    /\ Len(remote) >= 1
    /\ BagCardinality(requests) = 1

\* C7: when the run has ended after a fetch failed, no dispatched task is
\* left unstarted or in flight: each has completed or failed.
C7_NoFetchAborted ==
    (Terminated /\ \E i \in Tasks : FetchFailed(i)) =>
        \A j \in Tasks : task[j] \notin {"spawned", "inflight"}

\* C8: the process is never terminated by a spawned task.
C8_OnlyMainTerminates == exitedBy # "task"

\* C9: a run that has ended has either one line on standard output and no
\* diagnostic (status 0), or one diagnostic and nothing on standard output
\* (status not 0).
C9_ExactlyOneOutput ==
    Terminated =>
        \/ exitCode = EXIT_SUCCESS /\ Len(stdout) = 1 /\ stderr = << >>
        \/ exitCode # EXIT_SUCCESS /\ Len(stderr) = 1 /\ stdout = << >>

\* C10: the second invocation for the same arguments and the same dataset,
\* every request succeeding both times, ends as the first did: the same
\* standard output and the same status.
C10_SameTotalTwice ==
    (run = 2 /\ Terminated /\ AllFetched) =>
        /\ stdout = prev.stdout
        /\ exitCode = prev.exitCode

\* both invocations printed a total for three transactions, the second with
\* fetches that completed out of order
C10_Witness ==
    /\ run = 2
    /\ exitCode = EXIT_SUCCESS
    /\ AllFetched
    /\ Len(remote) >= 3
    /\ reordered
    /\ stdout # << >>
    /\ stdout = prev.stdout

(***************************************************************************)
(* The phases of the orchestrator, read off the position of main.          *)
(***************************************************************************)
Failed == exitCode \notin {Running, EXIT_SUCCESS}

Phase ==
    IF Failed THEN "Failed"
    ELSE CASE pc = "args" -> "Idle"
           [] pc = "prefix" -> "Validating"
           [] pc \in {"client", "resolve", "resolving"} -> "Resolving"
           [] pc = "spawn" -> "Dispatching"
           [] pc \in {"join", "panicked"} -> "Aggregating"
           [] pc = "returned" -> "Done"

\* the place of main's position in Idle, Validating, Resolving, Dispatching,
\* Aggregating, Done
PhaseRank(p) ==
    CASE p = "args" -> 0
      [] p = "prefix" -> 1
      [] p \in {"client", "resolve", "resolving"} -> 2
      [] p = "spawn" -> 3
      [] p \in {"join", "panicked"} -> 4
      [] p = "returned" -> 5

\* this step ends the run in failure
EntersFailed == ~Failed /\ Failed'

AllDispatchedFinished == \A i \in 1..Len(handles) : task[i] = "finished"

\* C12 as stated: a fee is added to the running total only when every
\* dispatched fetch has succeeded (none in flight, none failed).
C12_AddOnlyAfterFullSuccess ==
    [][ joined' = joined + 1 => AllDispatchedFinished ]_vars

\* C12, amended: a fee is added to the running total only after every task
\* has been spawned and the fetch of that transaction and of every
\* transaction before it in the list has succeeded (later fetches may be in
\* flight or failed); the total is printed only when every dispatched fetch
\* has succeeded and every handle has been awaited.
C12_AddOnlyOwnPrefixFinished ==
    [][ /\ joined' = joined + 1 =>
              /\ Len(handles) = Len(block_transaction_ids)
              /\ \A i \in 1..(joined + 1) : task[i] = "finished"
        /\ stdout' # stdout =>
              /\ AllDispatchedFinished
              /\ joined = Len(handles) ]_vars

\* a fee has been added while a later fetch is still in flight
C12_Witness ==
    /\ pc = "join"
    /\ joined >= 1
    /\ sum # DecZero
    /\ \E i \in (joined + 1)..Len(handles) : task[i] = "inflight"

\* the run ended in the validation of the argument
FailedInvalidInput == Terminated /\ pc \in {"args", "prefix"}

\* the run was ended by task i, whose request address could not be composed
FailedEndpointError(i) ==
    /\ task[i] = "exited"
    /\ TxUrl(block_transaction_ids[i]) = UrlParseError

\* C13 as stated: when the run has failed with InvalidInput or with an
\* EndpointError, no request was sent in that run.
C13_NoRequestOnInputOrEndpointError ==
    (FailedInvalidInput \/ \E i \in Tasks : FailedEndpointError(i)) =>
        requests = EmptyBag

\* C13, amended: when the run has failed with InvalidInput, no request was
\* sent; when it has failed with an EndpointError of the fetch of transaction
\* i, task i sent no request: the txids request was sent once, and every
\* other request is the fee request of another transaction.
C13_NoRequestByFailingUnit ==
    /\ FailedInvalidInput => requests = EmptyBag
    /\ \A i \in Tasks : FailedEndpointError(i) =>
          /\ CopiesIn(TxidsUrl(block_hash), requests) = 1
          /\ \A u \in BagToSet(requests) :
                \/ u = TxidsUrl(block_hash)
                \/ \E j \in 1..Len(block_transaction_ids) :
                      j # i /\ u = TxUrl(block_transaction_ids[j]) /\ u # UrlParseError

\* the run failed with the EndpointError of one fetch after the txids request
\* and the fee request of another transaction had been sent
C13_Witness ==
    /\ \E i \in Tasks : FailedEndpointError(i)
    /\ BagCardinality(requests) >= 2

\* C14: the handles are the tasks 1..k in the order of the txids response, one
\* per transaction id and all of them once the spawn loop is over; every
\* request was sent once, the txids request or the fee request of a spawned
\* task; and when main has returned, every handle was awaited once and the
\* total is the sum of every fee taken once.
C14_OneUnitOneRequestOneAddition ==
    /\ handles = [i \in 1..Len(handles) |-> i]
    /\ Len(handles) <= Len(block_transaction_ids)
    /\ pc \in {"join", "panicked", "returned"} => Len(handles) = Len(block_transaction_ids)
    /\ \A i \in Tasks : (task[i] # "none") <=> (i <= Len(handles))
    /\ \A u \in BagToSet(requests) :
          /\ CopiesIn(u, requests) = 1
          /\ \/ u = TxidsUrl(block_hash)
             \/ \E i \in 1..Len(handles) :
                   /\ u = TxUrl(block_transaction_ids[i])
                   /\ task[i] \notin {"none", "spawned"}
    /\ pc = "returned" =>
          /\ joined = Len(block_transaction_ids)
          /\ sum = InOrderTotal(remote, Len(remote))

\* a successful run for three transactions: four requests, three additions
C14_Witness ==
    /\ pc = "returned"
    /\ exitCode = EXIT_SUCCESS
    /\ Len(block_transaction_ids) >= 3
    /\ joined = Len(block_transaction_ids)
    /\ BagCardinality(requests) = Len(block_transaction_ids) + 1

\* C15: the failure that is reported is the one of the task that reaches its
\* error! at that moment, whatever its index: a task that logs appends the
\* diagnostic of its own failed fetch, and the task that ends the process has
\* logged its own.
C15_ReportedFailureIsTheLoggingTask ==
    [][ \A i \in Tasks :
          /\ (task[i] = "failed" /\ task'[i] = "logged") =>
                stderr' = Append(stderr, TaskDiag(i))
          /\ (task[i] # "exited" /\ task'[i] = "exited") =>
                /\ task[i] = "logged"
                /\ \E k \in 1..Len(stderr) : stderr[k] = TaskDiag(i) ]_vars

\* two fetches failed, and the first failure reported (by the task that also
\* ended the run) is the one of the higher index
C15_Witness ==
    \E i, j \in 1..Len(block_transaction_ids) :
        /\ i < j
        /\ FetchFailed(i)
        /\ task[j] = "exited"
        /\ stderr # << >>
        /\ stderr[1] = TaskDiag(j)
        /\ TaskDiag(i) # TaskDiag(j)

\* two fetches failed, and the first failure reported is the one of the lower
\* index
C15_WitnessLowest ==
    \E i, j \in 1..Len(block_transaction_ids) :
        /\ i < j
        /\ FetchFailed(j)
        /\ task[i] = "exited"
        /\ stderr # << >>
        /\ stderr[1] = TaskDiag(i)
        /\ TaskDiag(i) # TaskDiag(j)

\* C16: main awaits no handle before every task is spawned, and nothing
\* holds a task back: while transaction ids are left the next spawn is
\* possible whatever the other tasks are doing, and a spawned task can start
\* its request (or fail on its URL) whatever the others are doing.
C16_AllSpawnedBeforeJoinNoCap ==
    /\ (pc \in {"join", "panicked", "returned"} \/ joined > 0) =>
          Len(handles) = Len(block_transaction_ids)
    /\ (exitCode = Running /\ pc = "spawn" /\ Len(handles) < Len(block_transaction_ids)) =>
          ENABLED Spawn
    /\ \A i \in Tasks :
          (exitCode = Running /\ task[i] = "spawned") =>
              ENABLED (TaskSend(i) \/ TaskUrlErr(i))

\* the block has MaxTx transactions and all their fee requests are in flight
\* at once
C16_Witness ==
    /\ Len(block_transaction_ids) = MaxTx
    /\ \A i \in 1..MaxTx : task[i] = "inflight"
    /\ BagCardinality(requests) = MaxTx + 1

\* C17: under fair scheduling, with every request answered, the run ends: in
\* Done, the total printed and status 0, or in Failed, with a status that is
\* not 0.
C17_EventuallyDoneOrFailed ==
    <>( \/ Phase = "Done" /\ exitCode = EXIT_SUCCESS /\ Len(stdout) = 1
        \/ Phase = "Failed" )

\* main had to wait at the join point (a later fetch completed before an
\* earlier one) and the run has ended in Done
C17_Witness ==
    /\ Phase = "Done"
    /\ exitCode = EXIT_SUCCESS
    /\ Len(handles) = MaxTx
    /\ joined = MaxTx
    /\ reordered

\* C18: main awaits the handles in the order of the vector, which is the order
\* of the txids response: whatever the order in which the fetches completed,
\* the running total is the total of the fees of the first k transactions,
\* k the number of handles joined so far (0..N), taken in that order; the fee of
\* transaction j is added only when the fees of all transactions below j are.
C18_RunningTotalIsPrefixTotal ==
    /\ \A k \in 1..Len(handles) : handles[k] = k
    /\ joined \in 0..Len(handles)
    /\ Len(handles) <= Len(block_transaction_ids)
    /\ \E k \in 0..Len(block_transaction_ids) :
          /\ k = joined
          /\ sum = InOrderTotal(remote, k)

\* the fee of the third transaction has arrived, the fee of the second has
\* not: main holds the first fee alone and waits for the second
C18_Witness ==
    /\ pc = "join"
    /\ Len(handles) = 3
    /\ joined = 1
    /\ sum = remote[1].fee
    /\ task[3] = "finished"
    /\ task[2] \in {"spawned", "inflight"}
    /\ result[3] # DecZero

====
